---- MODULE Spec2Model ----
(***************************************************************************)
(* A model of qcell's TCellOwner / TCell (src/src/tcell.rs).               *)
(*                                                                         *)
(* The state is the singleton registry SINGLETON_CHECK (one set of marker  *)
(* TypeIds per thread in the default build, one process-wide set behind a  *)
(* Mutex with the "no-thread-local" feature), the live TCellOwner values,  *)
(* the TCell values, and the views (references) handed out by ro, rw, rw2  *)
(* and rw3 that are still alive.                                           *)
(*                                                                         *)
(* Every call is one action.  new() and drop() touch the registry inside   *)
(* one critical section (the Mutex guard, or the RefCell's borrow_mut, is  *)
(* a temporary of the statement), so the section is one atomic step; the   *)
(* assertion of new() is evaluated after the guard is gone.                *)
(*                                                                         *)
(* Cells are identified by their address, which is what rw2 and rw3        *)
(* compare.  The lifetime rules of the borrow signatures (&'a self for ro, *)
(* &'a mut self for rw/rw2/rw3) are the guards RoAllowed and RwAllowed.    *)
(*                                                                         *)
(* The client has the shape of the repository's tests: a main thread that  *)
(* creates the cells (the k-th one holding 100*k, as c1 = 100, c2 = 200)   *)
(* and borrows them, and a thread it spawns that creates and drops owners. *)
(* A spawned closure takes with it the values it captures, which must be   *)
(* Send.                                                                   *)
(*                                                                         *)
(* Spec and SpecNoThreadLocal are the two builds with new() and drop() as  *)
(* single steps; SpecMutex is the "no-thread-local" build with the Mutex   *)
(* taken and released in separate steps; SpecTLCell is the owner and cell  *)
(* of src/src/tlcell_impl.rs (ThreadLocalSingletonOwner, TLCell), which    *)
(* keep their own registry OWNERS.                                         *)
(***************************************************************************)
EXTENDS Integers, FiniteSets, Sequences, TLC

\* ---------------------------------------------------------------- bounds
NumCells == 3   \* cells the client creates
MaxRo == 2      \* shared views alive at once per owner
MaxLive == 2    \* owner values per thread and marker the state can hold

MainThread == "main"
Threads == {"main", "spawned"}
Markers == {"Marker1", "Marker2"}
CellMarker == "Marker1"
Addrs == 1..NumCells
InitValue(a) == 100 * a
ValuesOf(a) == {100 * a, 100 * a + a}

NoThread == "none"
Process == "process"
Scopes == Threads \cup {Process}
NoMarker == "none"
NoOwner == <<NoThread, NoMarker, 0>>

MsgSingletonProcess == "Illegal to create two TCellOwner instances with the same marker type parameter"
MsgSingletonThread == "Illegal to create two TCellOwner instances within the same thread with the same marker type parameter"
MsgRw2 == "Illegal to borrow same TCell twice with rw2()"
MsgRw3 == "Illegal to borrow same TCell twice with rw3()"

VARIABLES
    noThreadLocal,  \* cfg(feature = "no-thread-local")
    registry,       \* SINGLETON_CHECK: scope -> set of marker TypeIds
    owners,         \* live TCellOwner values <<thread, marker, ordinal>>
    cells,          \* TCell values by address: [holder, value]
    views,          \* live references handed out by ro / rw / rw2 / rw3
    mode,           \* each thread: "unstarted", "run", "unwind" (panicking), "dead"
    last,           \* the call that completed last and what it returned
    lock,           \* the thread holding SINGLETON_CHECK's Mutex guard, or NoThread
    pc,             \* each thread: the call it is inside the critical section of
    OWNERS,         \* tlcell_impl's registry: thread -> set of marker TypeIds
    tlOwners,       \* live ThreadLocalSingletonOwner values <<thread, marker, ordinal>>
    tlTemp,         \* each thread: the marker of the owner value TLCell::new has built
    tlCells         \* TLCell values: [holder, marker, value]

mutexVars == <<lock, pc>>
tlVars == <<OWNERS, tlOwners, tlTemp, tlCells>>
vars == <<noThreadLocal, registry, owners, cells, views, mode, last, mutexVars, tlVars>>

\* ---------------------------------------------------------------- helpers
\* The message of new()'s assertion in the build at hand.
MsgSingleton == IF noThreadLocal THEN MsgSingletonProcess ELSE MsgSingletonThread

Min(S) == CHOOSE x \in S : \A y \in S : x <= y

OwnerThread(o) == o[1]
OwnerMarker(o) == o[2]

OwnersOf(t) == {o \in owners : OwnerThread(o) = t}

ViewsOfOwner(o) == {v \in views : v.owner = o}
ViewsOfCell(c) == {v \in views : v.cell = c}
Exclusive(c) == {v \in ViewsOfCell(c) : v.kind = "rw"}
Shared(c) == {v \in ViewsOfCell(c) : v.kind = "ro"}
Count(o, c, kind) == Cardinality({v \in views : v.owner = o /\ v.cell = c /\ v.kind = kind})

View(o, c, kind, k) == [owner |-> o, cell |-> c, kind |-> kind, k |-> k]

\* What is observed of a call: its arguments, whether it returned ("ok") or
\* panicked (the message), the value behind the reference it returned, and,
\* for new(), whether it directly follows the drop of the owner it recreates.
Call(op, t, o, cs, outcome, value) ==
    [op |-> op, thread |-> t, owner |-> o, cells |-> cs, outcome |-> outcome,
     value |-> value, after |-> ""]

Following(call, prev) ==
    [call EXCEPT !.after = IF prev.op = "drop" /\ prev.owner = call.owner THEN "drop" ELSE ""]

\* ---------------------------------------------------------------- the code

\* A registry that is process-wide in every build.
ScopeProcess(t) == Process

\* A registry that is per thread in every build.
ScopeThread(t) == t

\* The registry a thread's calls reach: thread_local!, or the lazy_static Mutex.
Scope(t) == IF noThreadLocal THEN Process ELSE t

\* The live owners recorded in a scope's registry, for one marker.
LiveIn(s, q) == {o \in owners : Scope(OwnerThread(o)) = s /\ OwnerMarker(o) = q}

\* A new() that does not look at what insert returned.
SingletonCheckSkipped(reg, q) == TRUE

\* A registry that is one flag: new() looks whether anything is registered.
SingletonCheckAnyMarker(reg, q) == reg = {}

\* HashSet::insert's result, asserted by new().
SingletonCheck(reg, q) == q \notin reg

\* A Drop that leaves the marker in the registry.
RegistryKept(reg, q) == reg

\* A Drop that clears the registry.
RegistryCleared(reg, q) == {}

\* HashSet::remove in Drop.
RegistryAfterDrop(reg, q) == reg \ {q}

\* An rw2 without its assertion.
Rw2CheckSkipped(tc1, tc2) == TRUE

\* An rw2 whose assertion is inverted.
Rw2CheckInverted(tc1, tc2) == tc1 = tc2

\* rw2's assertion.
Rw2Check(tc1, tc2) == tc1 # tc2

\* An rw3 that forgets to compare the third cell with the first.
Rw3CheckTwoPairs(tc1, tc2, tc3) == (tc1 # tc2) /\ (tc2 # tc3)

\* rw3's assertion.
Rw3Check(tc1, tc2, tc3) == (tc1 # tc2) /\ (tc2 # tc3) /\ (tc3 # tc1)

\* ro takes &'a self: the owner must not be exclusively borrowed.
RoAllowed(o) == \A v \in ViewsOfOwner(o) : v.kind = "ro"

\* An rw that takes &'a self, like ro.
RwSharedBorrow(o) == RoAllowed(o)

\* rw, rw2, rw3 take &'a mut self: the owner must not be borrowed at all.
RwAllowed(o) == ViewsOfOwner(o) = {}

\* A borrow that returns a reference into the first cell, whatever tc is.
TargetFirst(tc) == 1

\* The cell the reference returned for tc points into: tc.value.get().
Target(tc) == tc

\* TCell<Q, T> is borrowed through a TCellOwner<Q> only, by the thread that
\* holds both.
CanUse(t, o, tc) ==
    /\ o \in OwnersOf(t)
    /\ tc \in DOMAIN cells
    /\ cells[tc].holder = t
    /\ OwnerMarker(o) = CellMarker

\* No call in progress: the thread is outside new() and drop().
Idle == [op |-> "idle", owner |-> NoOwner]

Running(t) == mode[t] = "run" /\ pc[t] = Idle /\ tlTemp[t] = NoMarker

\* A panic unwinds the thread: its references die first.
Unwound(t) == {v \in views : OwnerThread(v.owner) # t}

Init ==
    /\ noThreadLocal = FALSE
    /\ registry = [s \in Scopes |-> {}]
    /\ owners = {}
    /\ cells = <<>>
    /\ views = {}
    /\ mode = [t \in Threads |-> IF t = MainThread THEN "run" ELSE "unstarted"]
    /\ last = Call("none", NoThread, NoOwner, <<>>, "ok", 0)
    /\ lock = NoThread
    /\ pc = [t \in Threads |-> Idle]
    /\ OWNERS = [t \in Threads |-> {}]
    /\ tlOwners = {}
    /\ tlTemp = [t \in Threads |-> NoMarker]
    /\ tlCells = <<>>

InitNoThreadLocal ==
    /\ noThreadLocal = TRUE
    /\ registry = [s \in Scopes |-> {}]
    /\ owners = {}
    /\ cells = <<>>
    /\ views = {}
    /\ mode = [t \in Threads |-> IF t = MainThread THEN "run" ELSE "unstarted"]
    /\ last = Call("none", NoThread, NoOwner, <<>>, "ok", 0)
    /\ lock = NoThread
    /\ pc = [t \in Threads |-> Idle]
    /\ OWNERS = [t \in Threads |-> {}]
    /\ tlOwners = {}
    /\ tlTemp = [t \in Threads |-> NoMarker]
    /\ tlCells = <<>>

\* A TCellOwner<Q> with Send: the value may be moved into another thread.
TCellOwnerSendAllowed == TRUE

\* TCellOwner<Q> holds PhantomData<*const Q>: neither Send nor Sync, and it
\* derives neither Copy nor Clone.
TCellOwnerSend == FALSE

\* TCell<Q, T> holds PhantomData<*const Q> and nothing implements Send for it.
TCellSend == FALSE

\* The cells a thread holds.
CellsOf(t) == {c \in DOMAIN cells : cells[c].holder = t}

\* std::thread::spawn(move || ...): thread u starts; the closure takes the
\* owners os and the cells cs it captures, all of which must be Send and
\* unborrowed ('static).
SpawnMoving(t, u, os, cs) ==
    /\ Running(t)
    /\ mode[u] = "unstarted"
    /\ os \subseteq OwnersOf(t)
    /\ cs \subseteq CellsOf(t)
    /\ \A o \in os : TCellOwnerSend /\ ViewsOfOwner(o) = {}
    /\ \A c \in cs : TCellSend /\ ViewsOfCell(c) = {}
    /\ mode' = [mode EXCEPT ![u] = "run"]
    /\ owners' = (owners \ os) \cup {<<u, o[2], o[3]>> : o \in os}
    /\ cells' = [c \in DOMAIN cells |->
                    IF c \in cs THEN [cells[c] EXCEPT !.holder = u] ELSE cells[c]]
    /\ last' = Call("spawn", t, NoOwner, <<>>, "ok", 0)
    /\ UNCHANGED <<mutexVars, tlVars, noThreadLocal, registry, views>>

Spawn(t, u) ==
    \E os \in SUBSET {o \in OwnersOf(t) : TCellOwnerSend},
       cs \in SUBSET {c \in CellsOf(t) : TCellSend} : SpawnMoving(t, u, os, cs)

\* A new() that builds Self before it asserts: when the assertion fails the
\* value is dropped by the unwinding and Drop removes the marker.
NewDroppedOnPanic(t, q) ==
    /\ Running(t)
    /\ {n \in 1..MaxLive : <<t, q, n>> \notin owners} # {}
    /\ LET s == Scope(t)
           o == <<t, q, Min({n \in 1..MaxLive : <<t, q, n>> \notin owners})>>
       IN IF SingletonCheck(registry[s], q)
          THEN /\ registry' = [registry EXCEPT ![s] = @ \cup {q}]
               /\ owners' = owners \cup {o}
               /\ last' = Following(Call("new", t, o, <<>>, "ok", 0), last)
               /\ UNCHANGED <<views, mode>>
          ELSE /\ registry' = [registry EXCEPT ![s] = RegistryAfterDrop(@, q)]
               /\ last' = Following(Call("new", t, o, <<>>, MsgSingleton, 0), last)
               /\ mode' = [mode EXCEPT ![t] = "unwind"]
               /\ views' = Unwound(t)
               /\ UNCHANGED owners
    /\ UNCHANGED <<mutexVars, tlVars, noThreadLocal, cells>>

\* TCellOwner::<Q>::new(): insert into the registry, assert, return Self.
New(t, q) ==
    /\ Running(t)
    /\ {n \in 1..MaxLive : <<t, q, n>> \notin owners} # {}
    /\ LET s == Scope(t)
           o == <<t, q, Min({n \in 1..MaxLive : <<t, q, n>> \notin owners})>>
       IN /\ registry' = [registry EXCEPT ![s] = @ \cup {q}]
          /\ IF SingletonCheck(registry[s], q)
             THEN /\ owners' = owners \cup {o}
                  /\ last' = Following(Call("new", t, o, <<>>, "ok", 0), last)
                  /\ UNCHANGED <<views, mode>>
             ELSE /\ last' = Following(Call("new", t, o, <<>>, MsgSingleton, 0), last)
                  /\ mode' = [mode EXCEPT ![t] = "unwind"]
                  /\ views' = Unwound(t)
                  /\ UNCHANGED owners
    /\ UNCHANGED <<mutexVars, tlVars, noThreadLocal, cells>>

\* A Drop that does nothing while its thread is panicking.
DropUnlessPanicking(t, o) ==
    /\ mode[t] \in {"run", "unwind"}
    /\ o \in OwnersOf(t)
    /\ ViewsOfOwner(o) = {}
    /\ registry' = [registry EXCEPT ![Scope(t)] =
                        IF mode[t] = "unwind" THEN @ ELSE RegistryAfterDrop(@, OwnerMarker(o))]
    /\ owners' = owners \ {o}
    /\ last' = Call("drop", t, o, <<>>, "ok", 0)
    /\ UNCHANGED <<mutexVars, tlVars, noThreadLocal, cells, views, mode>>

\* Drop for TCellOwner: remove the marker from the registry.  Runs when the
\* owner goes out of scope, also while a panic unwinds.
Drop(t, o) ==
    /\ mode[t] \in {"run", "unwind"}
    /\ o \in OwnersOf(t)
    /\ ViewsOfOwner(o) = {}
    /\ registry' = [registry EXCEPT ![Scope(t)] = RegistryAfterDrop(@, OwnerMarker(o))]
    /\ owners' = owners \ {o}
    /\ last' = Call("drop", t, o, <<>>, "ok", 0)
    /\ UNCHANGED <<mutexVars, tlVars, noThreadLocal, cells, views, mode>>

\* ------------------------------------------- new() and drop(), step by step
\* With "no-thread-local" the registry is behind a Mutex.  A call is two
\* steps: lock() returns once the Mutex is free; then the registry is
\* changed, the guard, a temporary of the statement, unlocks the Mutex, and
\* new() asserts.  Nothing panics while the guard is alive, so the Mutex is
\* never poisoned and unwrap() always returns the guard.

\* A guard that is never dropped: the Mutex stays locked.
MutexLeaked(t) == t

\* The Mutex once the statement that locked it has ended.
MutexUnlocked(t) == NoThread

\* TCellOwner::<Q>::new() up to SINGLETON_CHECK.lock().unwrap().
NewLock(t, q) ==
    /\ noThreadLocal
    /\ Running(t)
    /\ {n \in 1..MaxLive : <<t, q, n>> \notin owners} # {}
    /\ lock = NoThread
    /\ lock' = t
    /\ pc' = [pc EXCEPT ![t] = [op |-> "new",
            owner |-> <<t, q, Min({n \in 1..MaxLive : <<t, q, n>> \notin owners})>>]]
    /\ UNCHANGED <<tlVars, noThreadLocal, registry, owners, cells, views, mode, last>>

\* The rest of new(): insert, unlock, assert, return Self.
NewInsert(t) ==
    /\ pc[t].op = "new"
    /\ lock = t
    /\ LET s == Scope(t)
           o == pc[t].owner
           q == OwnerMarker(o)
       IN /\ registry' = [registry EXCEPT ![s] = @ \cup {q}]
          /\ IF SingletonCheck(registry[s], q)
             THEN /\ owners' = owners \cup {o}
                  /\ last' = Following(Call("new", t, o, <<>>, "ok", 0), last)
                  /\ UNCHANGED <<views, mode>>
             ELSE /\ last' = Following(Call("new", t, o, <<>>, MsgSingleton, 0), last)
                  /\ mode' = [mode EXCEPT ![t] = "unwind"]
                  /\ views' = Unwound(t)
                  /\ UNCHANGED owners
    /\ lock' = MutexUnlocked(t)
    /\ pc' = [pc EXCEPT ![t] = Idle]
    /\ UNCHANGED <<tlVars, noThreadLocal, cells>>

\* Drop for TCellOwner up to SINGLETON_CHECK.lock().unwrap().
DropLock(t, o) ==
    /\ noThreadLocal
    /\ mode[t] \in {"run", "unwind"}
    /\ pc[t] = Idle
    /\ o \in OwnersOf(t)
    /\ ViewsOfOwner(o) = {}
    /\ lock = NoThread
    /\ lock' = t
    /\ pc' = [pc EXCEPT ![t] = [op |-> "drop", owner |-> o]]
    /\ UNCHANGED <<tlVars, noThreadLocal, registry, owners, cells, views, mode, last>>

\* The rest of drop(): remove, unlock; the owner value is gone.
DropRemove(t) ==
    /\ pc[t].op = "drop"
    /\ lock = t
    /\ registry' = [registry EXCEPT ![Scope(t)] =
                        RegistryAfterDrop(@, OwnerMarker(pc[t].owner))]
    /\ owners' = owners \ {pc[t].owner}
    /\ last' = Call("drop", t, pc[t].owner, <<>>, "ok", 0)
    /\ lock' = MutexUnlocked(t)
    /\ pc' = [pc EXCEPT ![t] = Idle]
    /\ UNCHANGED <<tlVars, noThreadLocal, cells, views, mode>>

\* A TCell::new that is given the owner of the marker, as owner.cell is: it
\* needs one alive.
TCellNewNeedsOwner(t) ==
    /\ Running(t)
    /\ t = MainThread
    /\ \E o \in OwnersOf(t) : OwnerMarker(o) = CellMarker
    /\ Len(cells) < NumCells
    /\ cells' = Append(cells, [holder |-> t, value |-> InitValue(Len(cells) + 1)])
    /\ last' = Call("TCell::new", t, NoOwner, <<Len(cells) + 1>>, "ok", InitValue(Len(cells) + 1))
    /\ UNCHANGED <<mutexVars, tlVars, noThreadLocal, registry, owners, views, mode>>

\* TCell::new(value): a cell at a fresh address, held by the calling thread.
TCellNew(t) ==
    /\ Running(t)
    /\ t = MainThread
    /\ Len(cells) < NumCells
    /\ cells' = Append(cells, [holder |-> t, value |-> InitValue(Len(cells) + 1)])
    /\ last' = Call("TCell::new", t, NoOwner, <<Len(cells) + 1>>, "ok", InitValue(Len(cells) + 1))
    /\ UNCHANGED <<mutexVars, tlVars, noThreadLocal, registry, owners, views, mode>>

\* owner.cell(value): TCell::new with the owner's marker; takes &self.
OwnerCell(t, o) ==
    /\ Running(t)
    /\ t = MainThread
    /\ o \in OwnersOf(t)
    /\ OwnerMarker(o) = CellMarker
    /\ RoAllowed(o)
    /\ Len(cells) < NumCells
    /\ cells' = Append(cells, [holder |-> t, value |-> InitValue(Len(cells) + 1)])
    /\ last' = Call("cell", t, o, <<Len(cells) + 1>>, "ok", InitValue(Len(cells) + 1))
    /\ UNCHANGED <<mutexVars, tlVars, noThreadLocal, registry, owners, views, mode>>

\* owner.ro(tc): a shared view of the cell's contents.
Ro(t, o, tc) ==
    /\ Running(t)
    /\ CanUse(t, o, tc)
    /\ RoAllowed(o)
    /\ Cardinality(ViewsOfOwner(o)) < MaxRo
    /\ views' = views \cup {View(o, Target(tc), "ro", Count(o, Target(tc), "ro") + 1)}
    /\ last' = Call("ro", t, o, <<tc>>, "ok", cells[Target(tc)].value)
    /\ UNCHANGED <<mutexVars, tlVars, noThreadLocal, registry, owners, cells, mode>>

\* owner.rw(tc): an exclusive view of the cell's contents.
Rw(t, o, tc) ==
    /\ Running(t)
    /\ CanUse(t, o, tc)
    /\ RwAllowed(o)
    /\ views' = views \cup {View(o, Target(tc), "rw", Count(o, Target(tc), "rw") + 1)}
    /\ last' = Call("rw", t, o, <<tc>>, "ok", cells[Target(tc)].value)
    /\ UNCHANGED <<mutexVars, tlVars, noThreadLocal, registry, owners, cells, mode>>

\* A tuple of references that all point into the first cell given.
RwViewsFirst(o, cs) ==
    {View(o, cs[1], "rw", Count(o, cs[1], "rw") + i) : i \in DOMAIN cs}

\* The exclusive views a call returns for a tuple of cells, one per argument.
RwViews(o, cs) ==
    {View(o, cs[i], "rw", Count(o, cs[i], "rw") + Cardinality({j \in 1..i : cs[j] = cs[i]}))
        : i \in DOMAIN cs}

\* owner.rw2(tc1, tc2): panics when both are the same address.
Rw2(t, o, tc1, tc2) ==
    /\ Running(t)
    /\ RwAllowed(o)
    /\ CanUse(t, o, tc1)
    /\ CanUse(t, o, tc2)
    /\ IF Rw2Check(tc1, tc2)
       THEN /\ views' = views \cup RwViews(o, <<Target(tc1), Target(tc2)>>)
            /\ last' = Call("rw2", t, o, <<tc1, tc2>>, "ok", 0)
            /\ UNCHANGED mode
       ELSE /\ views' = Unwound(t)
            /\ last' = Call("rw2", t, o, <<tc1, tc2>>, MsgRw2, 0)
            /\ mode' = [mode EXCEPT ![t] = "unwind"]
    /\ UNCHANGED <<mutexVars, tlVars, noThreadLocal, registry, owners, cells>>

\* owner.rw3(tc1, tc2, tc3): panics when any pair is the same address.
Rw3(t, o, tc1, tc2, tc3) ==
    /\ Running(t)
    /\ RwAllowed(o)
    /\ CanUse(t, o, tc1)
    /\ CanUse(t, o, tc2)
    /\ CanUse(t, o, tc3)
    /\ IF Rw3Check(tc1, tc2, tc3)
       THEN /\ views' = views \cup RwViews(o, <<Target(tc1), Target(tc2), Target(tc3)>>)
            /\ last' = Call("rw3", t, o, <<tc1, tc2, tc3>>, "ok", 0)
            /\ UNCHANGED mode
       ELSE /\ views' = Unwound(t)
            /\ last' = Call("rw3", t, o, <<tc1, tc2, tc3>>, MsgRw3, 0)
            /\ mode' = [mode EXCEPT ![t] = "unwind"]
    /\ UNCHANGED <<mutexVars, tlVars, noThreadLocal, registry, owners, cells>>

\* *view = x through an exclusive view (a &mut T).
Write(t, v, x) ==
    /\ Running(t)
    /\ v \in views
    /\ OwnerThread(v.owner) = t
    /\ v.kind = "rw"
    /\ cells' = [cells EXCEPT ![v.cell].value = x]
    /\ last' = Call("write", t, v.owner, <<v.cell>>, "ok", x)
    /\ UNCHANGED <<mutexVars, tlVars, noThreadLocal, registry, owners, views, mode>>

\* A view's last use: the reference's lifetime ends.
Release(t, v) ==
    /\ Running(t)
    /\ v \in views
    /\ OwnerThread(v.owner) = t
    /\ v.k = Count(v.owner, v.cell, v.kind)
    /\ views' = views \ {v}
    /\ last' = Call("release", t, v.owner, <<>>, "ok", 0)
    /\ UNCHANGED <<mutexVars, tlVars, noThreadLocal, registry, owners, cells, mode>>

\* ------------------------------------------------------- tlcell_impl.rs
\* ThreadLocalSingletonOwner<Mark> and TLCell<Mark, T>.  The borrows of this
\* owner go through ValueCellOwner, which is outside the files modelled.

\* new()'s assertion message (the source quotes SingletonOwner in backticks).
MsgInvalidSingleton == "Invalid SingletonOwner was attempted to be created"

TLOwnersOf(t) == {o \in tlOwners : OwnerThread(o) = t}
TLOwnersFor(t, m) == {o \in tlOwners : OwnerThread(o) = t /\ OwnerMarker(o) = m}

\* ThreadLocalSingletonOwner::<Mark>::new(), which Default::default() calls:
\* insert into OWNERS, assert, new_unchecked().
TLOwnerNew(t, m) ==
    /\ Running(t)
    /\ {n \in 1..MaxLive : <<t, m, n>> \notin tlOwners} # {}
    /\ LET o == <<t, m, Min({n \in 1..MaxLive : <<t, m, n>> \notin tlOwners})>>
       IN /\ OWNERS' = [OWNERS EXCEPT ![t] = @ \cup {m}]
          /\ IF m \notin OWNERS[t]
             THEN /\ tlOwners' = tlOwners \cup {o}
                  /\ last' = Call("TL::new", t, o, <<>>, "ok", 0)
                  /\ UNCHANGED mode
             ELSE /\ last' = Call("TL::new", t, o, <<>>, MsgInvalidSingleton, 0)
                  /\ mode' = [mode EXCEPT ![t] = "unwind"]
                  /\ UNCHANGED tlOwners
    /\ UNCHANGED <<tlTemp, tlCells, mutexVars, noThreadLocal, registry, owners, cells, views>>

\* A ThreadLocalSingletonOwner goes out of scope.  The type has no Drop:
\* OWNERS keeps the marker.
TLOwnerDrop(t, o) ==
    /\ mode[t] \in {"run", "unwind"}
    /\ tlTemp[t] = NoMarker
    /\ o \in TLOwnersOf(t)
    /\ tlOwners' = tlOwners \ {o}
    /\ last' = Call("TL::drop", t, o, <<>>, "ok", 0)
    /\ UNCHANGED <<OWNERS, tlTemp, tlCells, mutexVars, noThreadLocal, registry, owners,
                   cells, views, mode>>

\* TLCell::<Mark, T>::new(value), the receiver of its expression:
\* ThreadLocalSingletonOwner(PhantomData), an owner value built without a
\* look at OWNERS.
TLCellNewOwner(t) ==
    /\ Running(t)
    /\ t = MainThread
    /\ Len(tlCells) < NumCells
    /\ tlTemp' = [tlTemp EXCEPT ![t] = CellMarker]
    /\ UNCHANGED <<OWNERS, tlOwners, tlCells, mutexVars, noThreadLocal, registry, owners,
                   cells, views, mode, last>>

\* TLCell::new(value), the rest: .cell(value) returns the cell, and the
\* temporary owner goes at the end of the statement.
TLCellNewCell(t) ==
    /\ mode[t] = "run"
    /\ tlTemp[t] # NoMarker
    /\ tlCells' = Append(tlCells, [holder |-> t, marker |-> tlTemp[t],
                                   value |-> InitValue(Len(tlCells) + 1)])
    /\ tlTemp' = [tlTemp EXCEPT ![t] = NoMarker]
    /\ last' = Call("TLCell::new", t, NoOwner, <<Len(tlCells) + 1>>, "ok",
                    InitValue(Len(tlCells) + 1))
    /\ UNCHANGED <<OWNERS, tlOwners, mutexVars, noThreadLocal, registry, owners, cells,
                   views, mode>>

\* A panicking thread ends once its owners are dropped.
ThreadExit(t) ==
    /\ mode[t] = "unwind"
    /\ OwnersOf(t) = {}
    /\ TLOwnersOf(t) = {}
    /\ mode' = [mode EXCEPT ![t] = "dead"]
    /\ last' = Call("exit", t, NoOwner, <<>>, "ok", 0)
    /\ UNCHANGED <<mutexVars, tlVars, noThreadLocal, registry, owners, cells, views>>

\* The owners a borrow can be called on: those of running threads, with the
\* cells' marker; and those among them that nothing borrows.
Borrowers == {o \in owners : Running(OwnerThread(o)) /\ OwnerMarker(o) = CellMarker}
ExclusiveBorrowers == {o \in Borrowers : RwAllowed(o)}

Next ==
    \/ \E t, u \in Threads : Spawn(t, u)
    \/ \E t \in Threads, q \in Markers : New(t, q)
    \/ \E o \in owners : Drop(OwnerThread(o), o)
    \/ \E t \in Threads : TCellNew(t)
    \/ \E o \in owners : OwnerCell(OwnerThread(o), o)
    \/ \E o \in Borrowers, tc \in DOMAIN cells : Ro(OwnerThread(o), o, tc)
    \/ \E o \in ExclusiveBorrowers, tc \in DOMAIN cells : Rw(OwnerThread(o), o, tc)
    \/ \E o \in ExclusiveBorrowers, tc1, tc2 \in DOMAIN cells :
            Rw2(OwnerThread(o), o, tc1, tc2)
    \/ \E o \in ExclusiveBorrowers, tc1, tc2, tc3 \in DOMAIN cells :
            Rw3(OwnerThread(o), o, tc1, tc2, tc3)
    \/ \E v \in views : \E x \in ValuesOf(v.cell) : Write(OwnerThread(v.owner), v, x)
    \/ \E v \in views : Release(OwnerThread(v.owner), v)
    \/ \E t \in Threads : ThreadExit(t)

\* The default build: the registry is thread_local!.
Spec == Init /\ [][Next]_vars

\* The "no-thread-local" build: one registry for the process.
SpecNoThreadLocal == InitNoThreadLocal /\ [][Next]_vars

NextMutex ==
    \/ \E t, u \in Threads : Spawn(t, u)
    \/ \E t \in Threads, q \in Markers : NewLock(t, q)
    \/ \E t \in Threads : NewInsert(t)
    \/ \E o \in owners : DropLock(OwnerThread(o), o)
    \/ \E t \in Threads : DropRemove(t)
    \/ \E t \in Threads : TCellNew(t)
    \/ \E o \in owners : OwnerCell(OwnerThread(o), o)
    \/ \E o \in Borrowers, tc \in DOMAIN cells : Ro(OwnerThread(o), o, tc)
    \/ \E o \in ExclusiveBorrowers, tc \in DOMAIN cells : Rw(OwnerThread(o), o, tc)
    \/ \E o \in ExclusiveBorrowers, tc1, tc2 \in DOMAIN cells :
            Rw2(OwnerThread(o), o, tc1, tc2)
    \/ \E o \in ExclusiveBorrowers, tc1, tc2, tc3 \in DOMAIN cells :
            Rw3(OwnerThread(o), o, tc1, tc2, tc3)
    \/ \E v \in views : \E x \in ValuesOf(v.cell) : Write(OwnerThread(v.owner), v, x)
    \/ \E v \in views : Release(OwnerThread(v.owner), v)
    \/ \E t \in Threads : ThreadExit(t)

\* The "no-thread-local" build with the Mutex's critical sections as steps.
SpecMutex == InitNoThreadLocal /\ [][NextMutex]_vars

NextTLCell ==
    \/ \E t, u \in Threads : Spawn(t, u)
    \/ \E t \in Threads, m \in Markers : TLOwnerNew(t, m)
    \/ \E o \in tlOwners : TLOwnerDrop(OwnerThread(o), o)
    \/ \E t \in Threads : TLCellNewOwner(t)
    \/ \E t \in Threads : TLCellNewCell(t)
    \/ \E t \in Threads : ThreadExit(t)

\* Programs that use ThreadLocalSingletonOwner and TLCell.
SpecTLCell == Init /\ [][NextTLCell]_vars

\* ---------------------------------------------------------------- claims

OwnersFor(t, q) == {o \in owners : OwnerThread(o) = t /\ OwnerMarker(o) = q}

\* C1: in the default build a thread never holds two live TCellOwner<Q> of one
\* marker Q: a new() that returns has made the only live owner of its marker
\* in its thread, and a new() that panics has made none.
C1_OneOwnerPerThread ==
    /\ \A t \in Threads, q \in Markers : Cardinality(OwnersFor(t, q)) <= 1
    /\ last.op = "new" =>
        IF last.outcome = "ok"
        THEN OwnersFor(last.thread, OwnerMarker(last.owner)) = {last.owner}
        ELSE /\ last.outcome = MsgSingleton
             /\ last.owner \notin owners
             /\ mode[last.thread] # "run"

\* tcell_singleton_1: the second new() of a marker panicked, the first owner
\* being still alive.
C1_Witness ==
    /\ last.op = "new"
    /\ last.outcome = MsgSingleton
    /\ Cardinality(OwnersFor(last.thread, OwnerMarker(last.owner))) = 1

\* C2: new() panics only while an owner of its marker is live in the scope,
\* and a registry holds no marker without a live owner: once the owner is
\* dropped a new() of the same marker succeeds, cycle after cycle.
C2_NewAfterDropSucceeds ==
    /\ \A s \in Scopes, q \in Markers : q \in registry[s] => LiveIn(s, q) # {}
    /\ (last.op = "new" /\ last.outcome # "ok") =>
            LiveIn(Scope(last.thread), OwnerMarker(last.owner)) # {}
    /\ (last.op = "new" /\ last.after = "drop") =>
            last.outcome = "ok" /\ last.owner \in owners

\* tcell_singleton_2: new() right after the drop of the owner of the same
\* marker in the same thread returned an owner.
C2_Witness ==
    /\ last.op = "new"
    /\ last.after = "drop"
    /\ last.outcome = "ok"
    /\ last.owner \in owners

\* C3: no cell has an exclusive view alive together with any other view of
\* the same cell, shared or exclusive.
C3_WriterExcludesOthers ==
    \A c \in DOMAIN cells : Exclusive(c) # {} => Cardinality(ViewsOfCell(c)) = 1

\* An exclusive view of a cell is alive while a second owner of the cell's
\* marker lives (in the other thread) and another cell is viewed too.
C3_Witness ==
    /\ \E c, d \in DOMAIN cells : c # d /\ Exclusive(c) # {} /\ ViewsOfCell(d) # {}
    /\ \E o1, o2 \in owners : o1 # o2 /\ OwnerMarker(o1) = CellMarker /\ OwnerMarker(o2) = CellMarker

\* C4: rw2 given the same cell twice panics before any view is made: the
\* thread unwinds, no exclusive view of the cell exists afterwards and no
\* cell's contents change.
C4_Rw2SameCellPanics ==
    [][(last'.op = "rw2" /\ last'.cells[1] = last'.cells[2]) =>
            /\ last'.outcome = MsgRw2
            /\ mode'[last'.thread] = "unwind"
            /\ {v \in views' : v.cell = last'.cells[1] /\ v.kind = "rw"} = {}
            /\ {v \in views' : v.owner = last'.owner} = {}
            /\ cells' = cells]_vars

\* rw2(c, c) was called and panicked.
C4_Witness ==
    /\ last.op = "rw2"
    /\ last.cells[1] = last.cells[2]
    /\ last.outcome = MsgRw2
    /\ mode[last.thread] = "unwind"

\* C5: rw3 panics if and only if two of its three arguments are the same
\* cell; given three different cells it returns three exclusive views, one
\* onto each cell, and they are the owner's only views.
C5_Rw3PanicsIffAliased ==
    last.op = "rw3" =>
        LET cs == last.cells
            aliased == cs[1] = cs[2] \/ cs[2] = cs[3] \/ cs[3] = cs[1]
        IN /\ last.outcome = MsgRw3 <=> aliased
           /\ last.outcome = "ok" <=> ~aliased
           /\ ~aliased =>
                /\ \A i \in 1..3 : Exclusive(cs[i]) = {View(last.owner, cs[i], "rw", 1)}
                /\ ViewsOfOwner(last.owner) = {View(last.owner, cs[i], "rw", 1) : i \in 1..3}

\* rw3 on three different cells returned its three views.
C5_Witness ==
    /\ last.op = "rw3"
    /\ last.outcome = "ok"
    /\ Cardinality({last.cells[i] : i \in 1..3}) = 3
    /\ Cardinality(ViewsOfOwner(last.owner)) = 3

\* C6: rw2 on two different cells returns, with one exclusive view onto each
\* cell; a write through a view changes the contents of its cell to the
\* value written and of no other cell, and ro returns what the cell holds,
\* so the values written are read back.
C6_Rw2DistinctCellsIndependent ==
    /\ [](last.op = "rw2" /\ last.cells[1] # last.cells[2] =>
            /\ last.outcome = "ok"
            /\ ViewsOfOwner(last.owner) =
                    {View(last.owner, last.cells[i], "rw", 1) : i \in 1..2})
    /\ [](last.op = "ro" => last.value = cells[last.cells[1]].value)
    /\ [][last'.op = "write" =>
            /\ cells'[last'.cells[1]].value = last'.value
            /\ \A c \in DOMAIN cells : c # last'.cells[1] => cells'[c] = cells[c]]_vars
    /\ [][last'.op \in {"rw2", "release", "ro"} => cells' = cells]_vars

\* The doctest: c1 = 100 and c2 = 200 written to 101 and 202 through the two
\* views of one rw2, both views still alive.
C6_Witness ==
    /\ Len(cells) = 2
    /\ last.op = "write"
    /\ cells[1].value = 101
    /\ cells[2].value = 202
    /\ \E o \in owners : ViewsOfOwner(o) = {View(o, 1, "rw", 1), View(o, 2, "rw", 1)}

\* C7: in the default build new() returns exactly when its own thread holds
\* no other live owner of the marker, whatever the other thread holds: one
\* owner per thread may live at once, a second one in a thread panics.
C7_OwnerPerThreadIndependent ==
    last.op = "new" =>
        (last.outcome = "ok" <=>
            OwnersFor(last.thread, OwnerMarker(last.owner)) \ {last.owner} = {})

\* tcell_threads: both threads hold a live owner of the same marker, the
\* second one just created.
C7_Witness ==
    /\ last.op = "new"
    /\ last.outcome = "ok"
    /\ \E o \in owners : OwnerMarker(o) = OwnerMarker(last.owner) /\ OwnerThread(o) # last.thread

OwnersOfMarker(q) == {o \in owners : OwnerMarker(o) = q}

\* C8: with "no-thread-local" at most one owner of a marker is live in the
\* whole process: new() returns exactly when no other owner of the marker is
\* live in any thread, so of several new() calls one returns and the others
\* panic.
C8_OneOwnerPerProcess ==
    /\ \A q \in Markers : Cardinality(OwnersOfMarker(q)) <= 1
    /\ last.op = "new" =>
        /\ last.outcome = "ok" <=> OwnersOfMarker(OwnerMarker(last.owner)) = {last.owner}
        /\ last.outcome # "ok" =>
                /\ last.outcome = MsgSingleton
                /\ Cardinality(OwnersOfMarker(OwnerMarker(last.owner))) = 1
                /\ last.owner \notin owners

\* tcell_threads with the feature: new() panicked in one thread while the
\* other thread's owner of the marker is alive.
C8_Witness ==
    /\ last.op = "new"
    /\ last.outcome = MsgSingleton
    /\ \E o \in owners : OwnerMarker(o) = OwnerMarker(last.owner) /\ OwnerThread(o) # last.thread

\* C9: owners of different markers live side by side: whether new() returns
\* depends on its own marker's registration alone, and a new() or a drop
\* changes neither the registration nor the live owners of another marker.
C9_MarkersIndependent ==
    [][last'.op \in {"new", "drop"} =>
            LET q == OwnerMarker(last'.owner)
                s == Scope(last'.thread)
            IN /\ last'.op = "new" => (last'.outcome = "ok" <=> q \notin registry[s])
               /\ \A r \in Scopes, q2 \in Markers \ {q} :
                    /\ (q2 \in registry'[r]) = (q2 \in registry[r])
                    /\ OwnersOfMarker(q2)' = OwnersOfMarker(q2)]_vars

\* tcell_singleton_3: one thread holds owners of both markers, the second
\* one just created.
C9_Witness ==
    /\ last.op = "new"
    /\ last.outcome = "ok"
    /\ \E o \in owners : OwnerThread(o) = last.thread /\ OwnerMarker(o) # OwnerMarker(last.owner)
    /\ last.owner \in owners

\* C10: every ro call returns, with a shared view of the cell it was given
\* that holds the cell's current value; the views alive before stay alive
\* and no cell's contents change.
C10_RoViewsCoexist ==
    [][last'.op = "ro" =>
            LET c == last'.cells[1]
            IN /\ last'.outcome = "ok"
               /\ last'.value = cells[c].value
               /\ cells' = cells
               /\ views \subseteq views'
               /\ Cardinality({v \in views' : v.cell = c /\ v.kind = "ro"}) =
                        Cardinality(Shared(c)) + 1
               /\ \A v \in views' \ views : v.kind = "ro" /\ v.cell = c /\ v.owner = last'.owner]_vars

\* The doctest: shared views of two cells, taken from one owner, alive
\* together, the owner holding as many views as the bound allows.
C10_Witness ==
    /\ last.op = "ro"
    /\ \E o \in owners, c, d \in DOMAIN cells :
        /\ c # d
        /\ Cardinality({v \in Shared(c) : v.owner = o}) >= 1
        /\ Cardinality({v \in Shared(d) : v.owner = o}) >= 1
        /\ Cardinality(ViewsOfOwner(o)) = MaxRo

\* C11: a TCell with no outstanding views can be moved into a newly spawned
\* thread while the original thread's TCellOwner<Q> is alive (there a fresh
\* owner then reads and writes it: 100, 101 by owner1, 102 by owner2): whenever
\* a running thread holds a live owner of the cells' marker and an unborrowed
\* cell, and the other thread is not started, the spawn that moves the cell
\* into the new thread can be taken.
C11_CellMovesToSpawnedThread ==
    \A t, u \in Threads, c \in DOMAIN cells :
        (/\ Running(t)
         /\ mode[u] = "unstarted"
         /\ OwnersFor(t, CellMarker) # {}
         /\ cells[c].holder = t
         /\ ViewsOfCell(c) = {})
            => ENABLED SpawnMoving(t, u, {}, {c})

\* C12: the only calls that panic are new() while an owner of its marker is
\* live in the scope and rw2/rw3 given the same cell twice; ro, rw, cell,
\* TCell::new, drop, spawn, writes, rw2/rw3 on pairwise different cells and
\* new() with no owner of its marker live in the scope all return.
C12_OnlyPanicSources ==
    LET cs == last.cells
        others == LiveIn(Scope(last.thread), OwnerMarker(last.owner)) \ {last.owner}
    IN /\ last.outcome # "ok" =>
            \/ last.op = "new" /\ last.outcome = MsgSingleton /\ others # {}
            \/ last.op = "rw2" /\ last.outcome = MsgRw2 /\ cs[1] = cs[2]
            \/ /\ last.op = "rw3"
               /\ last.outcome = MsgRw3
               /\ (cs[1] = cs[2] \/ cs[2] = cs[3] \/ cs[3] = cs[1])
       /\ (last.op = "new" /\ others = {}) => last.outcome = "ok"
       /\ (last.op = "rw2" /\ cs[1] # cs[2]) => last.outcome = "ok"
       /\ (last.op = "rw3" /\ cs[1] # cs[2] /\ cs[2] # cs[3] /\ cs[3] # cs[1]) =>
                last.outcome = "ok"
       /\ \A t \in Threads : last.outcome = "ok" /\ last.op # "exit" /\ last.thread = t =>
                mode[t] \in {"run", "unwind"}

\* Both kinds of panic have happened: rw3 has just panicked on an aliased
\* argument in one thread, the other thread having died of a second new().
C12_Witness ==
    /\ last.op = "rw3"
    /\ last.outcome = MsgRw3
    /\ \E t \in Threads : t # last.thread /\ mode[t] = "dead"

\* C13: for ThreadLocalSingletonOwner<Mark>, once an owner has been destroyed
\* its marker is out of the thread's registry, so a later new() of the marker
\* in the thread succeeds: OWNERS holds no marker without a live owner, and
\* new() panics only while an owner of its marker is live in its thread.
C13_TLNewAfterDropSucceeds ==
    /\ \A t \in Threads, m \in Markers : m \in OWNERS[t] => TLOwnersFor(t, m) # {}
    /\ (last.op = "TL::new" /\ last.outcome # "ok") =>
            TLOwnersFor(last.thread, OwnerMarker(last.owner)) # {}

\* C14: for ThreadLocalSingletonOwner<Mark>, at most one owner value of a
\* marker exists in a thread at any instant: new() panics when the marker is
\* in OWNERS, and no safe call, TLCell::new included, makes a second owner
\* value of the marker while one is live.
C14_TLOneOwnerValue ==
    /\ \A t \in Threads, m \in Markers :
            Cardinality(TLOwnersFor(t, m)) + (IF tlTemp[t] = m THEN 1 ELSE 0) <= 1
    /\ (last.op = "TL::new" /\ last.outcome = "ok") =>
            TLOwnersFor(last.thread, OwnerMarker(last.owner)) = {last.owner}

\* C15: no call blocks: a thread is inside new() or drop() only while it
\* holds the Mutex, and then it can finish the call whatever the other
\* threads do; with the Mutex free every new() and drop() can be entered; and
\* ro, rw, rw2 and rw3 can be taken whether or not the Mutex is held.  No
\* thread waits for a Mutex whose holder cannot go on: no deadlock.
C15_NoCallBlocks ==
    /\ \A t \in Threads : pc[t] # Idle <=> lock = t
    /\ \A t \in Threads : pc[t].op = "new" => ENABLED NewInsert(t)
    /\ \A t \in Threads : pc[t].op = "drop" => ENABLED DropRemove(t)
    /\ lock = NoThread =>
        /\ \A t \in Threads, q \in Markers : Running(t) => ENABLED NewLock(t, q)
        /\ \A o \in owners :
                (mode[OwnerThread(o)] \in {"run", "unwind"} /\ ViewsOfOwner(o) = {}) =>
                    ENABLED DropLock(OwnerThread(o), o)
    /\ \A o \in Borrowers : \A c \in CellsOf(OwnerThread(o)) :
        /\ (RoAllowed(o) /\ Cardinality(ViewsOfOwner(o)) < MaxRo) =>
                ENABLED Ro(OwnerThread(o), o, c)
        /\ RwAllowed(o) =>
                /\ ENABLED Rw(OwnerThread(o), o, c)
                /\ \A d \in CellsOf(OwnerThread(o)) :
                    /\ ENABLED Rw2(OwnerThread(o), o, c, d)
                    /\ ENABLED Rw3(OwnerThread(o), o, c, d, c)

\* One thread, which holds an owner, is inside the critical section of
\* new() while the other thread holds an exclusive view of a cell.
C15_Witness ==
    /\ lock \in Threads
    /\ pc[lock].op = "new"
    /\ \E v \in views : v.kind = "rw" /\ OwnerThread(v.owner) # lock
    /\ \E o \in owners : OwnerThread(o) = lock

\* C16: an owner never leaves the thread that created it and is never
\* duplicated: every live owner is held by the thread in whose registry its
\* marker is recorded, a marker has as many live owners as registries that
\* record it, and every borrow is made by the owner's thread, the owner's
\* marker being in that thread's registry.
C16_OwnerStaysInItsThread ==
    /\ \A o \in owners : OwnerMarker(o) \in registry[Scope(OwnerThread(o))]
    /\ \A q \in Markers :
            Cardinality(OwnersOfMarker(q)) = Cardinality({s \in Scopes : q \in registry[s]})
    /\ \A v \in views :
            v.owner \in owners /\ cells[v.cell].holder = OwnerThread(v.owner)
    /\ last.op \in {"cell", "ro", "rw", "rw2", "rw3", "write"} =>
            /\ last.owner \in owners
            /\ last.thread = OwnerThread(last.owner)
            /\ OwnerMarker(last.owner) \in registry[Scope(last.thread)]

\* A thread spawned after an owner was created holds its own owner of the
\* same marker, while the first thread has just borrowed with its owner.
C16_Witness ==
    /\ last.op \in {"ro", "rw"}
    /\ \E o \in owners :
        /\ OwnerThread(o) # last.thread
        /\ OwnerMarker(o) = OwnerMarker(last.owner)

\* C17: the contents of a cell change only by a write through an exclusive
\* view of that cell, and such a view comes only from rw, rw2 or rw3 called
\* on that cell: any other step (new(), failed or not, drop, cell,
\* TCell::new, ro, spawn, a write to another cell) leaves the contents as
\* they are.
C17_ContentsChangeOnlyByWrite ==
    [][/\ DOMAIN cells \subseteq DOMAIN cells'
       /\ \A c \in DOMAIN cells : cells'[c].value # cells[c].value =>
            /\ last'.op = "write"
            /\ last'.cells = <<c>>
            /\ last'.value = cells'[c].value
            /\ \E v \in views : v.cell = c /\ v.kind = "rw" /\ v.owner = last'.owner
       /\ \A v \in views' \ views : v.kind = "rw" =>
            /\ last'.op \in {"rw", "rw2", "rw3"}
            /\ last'.outcome = "ok"
            /\ v.owner = last'.owner
            /\ \E i \in DOMAIN last'.cells : last'.cells[i] = v.cell
       /\ (last'.op \in {"rw", "rw2", "rw3"} /\ last'.outcome = "ok") =>
            {v.cell : v \in views' \ views} = {last'.cells[i] : i \in DOMAIN last'.cells}
      ]_vars

\* tests::tcell: the first cell has been written (101) through a view from
\* rw, the second cell, made by owner.cell, still holds 200, and the other
\* thread holds an owner of the marker.
C17_Witness ==
    /\ last.op = "write"
    /\ last.cells = <<1>>
    /\ Len(cells) >= 2
    /\ cells[1].value = 101
    /\ cells[2].value = 200
    /\ \E o \in owners : OwnerThread(o) # last.thread /\ OwnerMarker(o) = CellMarker

\* C18: a cell does not depend on any owner instance: TCell::new can be
\* called with no owner alive and touches neither the registry nor the
\* owners; a drop of an owner changes no cell; and every live owner of the
\* cells' marker, whichever new() made it, can take ro and rw on every cell
\* of its thread, ro and rw returning the value the cell holds.
C18_CellIndependentOfOwner ==
    /\ []((Running(MainThread) /\ Len(cells) < NumCells) => ENABLED TCellNew(MainThread))
    /\ [](\A o \in Borrowers : \A c \in CellsOf(OwnerThread(o)) :
            /\ (RoAllowed(o) /\ Cardinality(ViewsOfOwner(o)) < MaxRo) =>
                    ENABLED Ro(OwnerThread(o), o, c)
            /\ RwAllowed(o) => ENABLED Rw(OwnerThread(o), o, c))
    /\ [](last.op \in {"ro", "rw"} => last.value = cells[last.cells[1]].value)
    /\ [][last'.op = "TCell::new" =>
            /\ last'.outcome = "ok"
            /\ registry' = registry
            /\ owners' = owners
            /\ \A c \in DOMAIN cells : cells'[c] = cells[c]]_vars
    /\ [][last'.op \in {"new", "drop"} => cells' = cells]_vars

\* A cell written to 101 has outlived the owner that wrote it: that owner
\* was dropped and new() has just returned the next owner of the marker.
C18_Witness ==
    /\ last.op = "new"
    /\ last.after = "drop"
    /\ last.outcome = "ok"
    /\ OwnerMarker(last.owner) = CellMarker
    /\ \E c \in DOMAIN cells : cells[c].holder = last.thread /\ cells[c].value = 100 * c + c

\* C19: the registry entry is released on every exit path: a thread that
\* panics drops its owners while it unwinds, each drop removing its marker,
\* so a dead thread holds no owner, the registry records no marker whose
\* owner is gone or belongs to a dead thread, and (process-wide build) any
\* running thread can then call new() for the marker and gets an owner.
C19_RegistryReleasedOnPanic ==
    /\ \A t \in Threads : mode[t] = "dead" => OwnersOf(t) = {}
    /\ \A s \in Scopes : \A q \in registry[s] :
            \E o \in LiveIn(s, q) : mode[OwnerThread(o)] \in {"run", "unwind"}
    /\ (last.op = "drop" /\ mode[last.thread] = "unwind") =>
            /\ OwnerMarker(last.owner) \notin registry[Scope(last.thread)]
            /\ \A t \in Threads : Running(t) => ENABLED New(t, OwnerMarker(last.owner))
    /\ (last.op = "new" /\ OwnersOfMarker(OwnerMarker(last.owner)) \subseteq {last.owner}) =>
            last.outcome = "ok" /\ last.owner \in owners

\* tcell_threads_2 in the process-wide build: a thread that held an owner
\* has panicked and, unwinding, has just dropped it; the other thread runs.
C19_Witness ==
    /\ last.op = "drop"
    /\ mode[last.thread] = "unwind"
    /\ OwnersOf(last.thread) = {}
    /\ \E t \in Threads : t # last.thread /\ Running(t)

\* C20: a scope's registry contains a marker if and only if an owner of the
\* marker is live in the scope; a failed new() makes no owner, runs no Drop
\* and leaves the registry as it was, so the owner that made it fail stays
\* registered and new() for the marker goes on panicking until that owner is
\* dropped.
C20_RegistryIffLiveOwner ==
    /\ [](\A s \in Scopes, q \in Markers : q \in registry[s] <=> LiveIn(s, q) # {})
    /\ [][(last'.op = "new" /\ last'.outcome # "ok") =>
            /\ registry' = registry
            /\ owners' = owners
            /\ last'.owner \notin owners'
            /\ OwnerMarker(last'.owner) \in registry'[Scope(last'.thread)]
            /\ LiveIn(Scope(last'.thread), OwnerMarker(last'.owner)) # {}]_vars
    /\ [][last'.op = "new" =>
            (last'.outcome = "ok" <=> LiveIn(Scope(last'.thread), OwnerMarker(last'.owner)) = {})]_vars

\* Process-wide build: new() has just panicked in a second thread for the
\* marker whose owner, alive and registered, made an earlier new() panic.
C20_Witness ==
    /\ last.op = "new"
    /\ last.outcome = MsgSingleton
    /\ \A t \in Threads : mode[t] \in {"unwind", "dead"}
    /\ Cardinality(OwnersOfMarker(OwnerMarker(last.owner))) = 1
    /\ OwnerMarker(last.owner) \in registry[Scope(last.thread)]
====
